---- MODULE Spec2Model ----
(***************************************************************************)
(* Model of src/app.py: the assignment / submission portal.                *)
(*                                                                         *)
(* State: the two JSON collections the handlers load and save whole        *)
(* (data/assignments.json, data/submissions.json), the uploaded files on   *)
(* disk, the wall clock, and the last request served with its response.    *)
(* Every lifecycle handler is one action of Spec (load, modify, save,      *)
(* respond). SpecView applies the read handlers to the stores that create  *)
(* and upload requests leave, one request per targeting case. SpecRace     *)
(* splits the two submission writers into their load and save steps, as    *)
(* two request threads of the Flask server execute them.                   *)
(*                                                                         *)
(* The clock advances by one with every record created, so createdAt and   *)
(* submittedOn tell the records of a collection apart.                     *)
(*                                                                         *)
(* Text that the code trims, splits or lower-cases is a sequence of        *)
(* tokens: " " is a whitespace token, "." the dot, every other token a     *)
(* chunk free of whitespace and dots.                                      *)
(***************************************************************************)
EXTENDS Integers, Sequences, FiniteSets, TLC

VARIABLES assignments, submissions, files, now, request, response,
          pc, snap, job, missed, lastWriter, served

vars == <<assignments, submissions, files, now, request, response,
          pc, snap, job, missed, lastWriter, served>>

race == <<pc, snap, job, missed, lastWriter, served>>

(* ---------------------------------------------------------------- bounds *)

\* The clock stops here: at most MaxTime records are ever created.
MaxTime == 3

\* The read handlers are applied to stores of up to MaxAssignments assignments
\* and MaxSubmissions submissions.
MaxAssignments == 2
MaxSubmissions == 2

\* The interleaved specification serves at most MaxRequests requests.
MaxRequests == 4

\* Request paths name the ids 1..MaxId.
MaxId == 2

(* ------------------------------------------------------------- constants *)

\* Python's None: a value distinct from every string of the accounts and payloads.
None == "None"

OK == 200
BAD_REQUEST == 400
NOT_FOUND == 404

ALLOWED_EXTENSIONS == {<<"pdf">>}

Range(s) == {s[i] : i \in 1..Len(s)}

\* dict.get(key, default)
Get(d, k, default) == IF k \in DOMAIN d THEN d[k] ELSE default

(* ------------------------------------------------------------------ text *)

RECURSIVE lstrip(_)
lstrip(s) == IF s = <<>> THEN s
             ELSE IF Head(s) = " " THEN lstrip(Tail(s)) ELSE s

RECURSIVE rstrip(_)
rstrip(s) == IF s = <<>> THEN s
             ELSE IF s[Len(s)] = " " THEN rstrip(SubSeq(s, 1, Len(s) - 1)) ELSE s

\* str.strip()
strip(s) == rstrip(lstrip(s))

\* str.lower(), on the tokens the uploads use
lower(s) == [i \in 1..Len(s) |->
               CASE s[i] = "PDF" -> "pdf"
                 [] s[i] = "TXT" -> "txt"
                 [] OTHER -> s[i]]

\* filename.rsplit('.', 1)[1]: what follows the last dot
RECURSIVE AfterLastDot(_)
AfterLastDot(s) == LET rest == Tail(s)
                   IN  IF "." \in Range(rest) THEN AfterLastDot(rest)
                       ELSE IF Head(s) = "." THEN rest
                       ELSE AfterLastDot(rest)

allowed_file(filename) ==
    /\ "." \in Range(filename)
    /\ lower(AfterLastDot(filename)) \in ALLOWED_EXTENSIONS

(* -------------------------------------------------------------- accounts *)

\* data/students.json and data/faculties.json: read, never written.
Ann == [studentID |-> "S1", name |-> "Ann", section |-> "A"]
Bob == [studentID |-> "S2", name |-> "Bob", section |-> ""]
Kay == [facultyID |-> "F1", name |-> "Kay"]
Lee == [facultyID |-> "F2", name |-> "Lee"]

Students == {Ann, Bob}
Faculties == {Kay, Lee}

\* The session login_page leaves for an authenticated account.
StudentSession(u) == [user_id |-> u.studentID, role |-> "student",
                      name |-> u.name, section |-> Get(u, "section", "")]

FacultySession(u) == [user_id |-> u.facultyID, role |-> "faculty",
                      name |-> u.name, section |-> None]

StudentSessions == {StudentSession(u) : u \in Students}
FacultySessions == {FacultySession(u) : u \in Faculties}

NoSession == [user_id |-> "", role |-> "", name |-> "", section |-> None]

(* ---------------------------------------------------------------- inputs *)

\* Valid requests to /api/faculty/create-assignment, one per targeting case:
\* all (the default), section "A", the empty section, section with no
\* targetSection, students, and a targetType the code does not recognise.
TargetingRequests ==
    { [session |-> FacultySession(Kay),
       data |-> [subject |-> <<" ", "M", " ">>,
                 deadlineDate |-> <<"d">>, deadlineTime |-> <<"t">>]],
      [session |-> FacultySession(Lee),
       data |-> [subject |-> <<"M">>, targetType |-> "section", targetSection |-> "A",
                 deadlineDate |-> <<"d">>, deadlineTime |-> <<"t">>]],
      [session |-> FacultySession(Lee),
       data |-> [subject |-> <<"M">>, targetType |-> "section", targetSection |-> "",
                 deadlineDate |-> <<"d">>, deadlineTime |-> <<"t">>]],
      [session |-> FacultySession(Kay),
       data |-> [subject |-> <<"M">>, targetType |-> "section",
                 deadlineDate |-> <<"d">>, deadlineTime |-> <<"t">>]],
      [session |-> FacultySession(Kay),
       data |-> [subject |-> <<"M">>, targetType |-> "students",
                 targetStudents |-> <<"S1">>,
                 deadlineDate |-> <<" ", "d">>, deadlineTime |-> <<"t">>]],
      [session |-> FacultySession(Lee),
       data |-> [subject |-> <<"M">>, targetType |-> "group", targetSection |-> "A",
                 targetStudents |-> <<"S1">>,
                 deadlineDate |-> <<"d">>, deadlineTime |-> <<"t">>]] }

\* Requests to /api/faculty/create-assignment that fail validation.
InvalidAssignmentRequests ==
    { [session |-> FacultySession(Kay),
       data |-> [subject |-> <<" ">>, deadlineDate |-> <<"d">>, deadlineTime |-> <<"t">>]],
      [session |-> FacultySession(Lee),
       data |-> [subject |-> <<"M">>, deadlineTime |-> <<"t">>]],
      [session |-> FacultySession(Kay),
       data |-> [subject |-> <<"M">>, deadlineDate |-> <<"d">>,
                 deadlineTime |-> <<" ", " ">>]] }

\* The create-assignment requests of Spec: one valid request per faculty
\* account, and the invalid ones.
AssignmentRequests ==
    {r \in TargetingRequests : Get(r.data, "targetType", "all") \in {"all", "group"}}
        \cup InvalidAssignmentRequests

\* Valid requests to /api/student/upload: the session and the multipart form.
ValidUploadRequests ==
    { [session |-> StudentSession(Ann),
       form |-> [subject |-> <<" ", "M">>, file |-> <<"report", ".", "pdf">>]],
      [session |-> StudentSession(Bob),
       form |-> [subject |-> <<"M">>, file |-> <<"report", ".", "PDF">>]],
      [session |-> StudentSession(Ann),
       form |-> [subject |-> <<"P">>, file |-> <<"report", ".", "pdf">>]] }

\* Requests to /api/student/upload that fail validation ("file" absent: no
\* file part in the form).
InvalidUploadRequests ==
    { [session |-> StudentSession(Ann), form |-> [subject |-> <<"M">>]],
      [session |-> StudentSession(Bob),
       form |-> [subject |-> <<" ">>, file |-> <<"report", ".", "pdf">>]],
      [session |-> StudentSession(Ann), form |-> [subject |-> <<"M">>, file |-> <<>>]],
      [session |-> StudentSession(Bob),
       form |-> [subject |-> <<"M">>, file |-> <<"notes", ".", "txt">>]],
      [session |-> StudentSession(Ann),
       form |-> [subject |-> <<"M">>, file |-> <<"pdf">>]] }

\* The upload requests of Spec: one valid upload per student account, and
\* the invalid ones.
UploadRequests ==
    {r \in ValidUploadRequests : strip(r.form.subject) = <<"M">>}
        \cup InvalidUploadRequests

\* Requests to /api/faculty/submission/<id>/status: the session and the JSON
\* body. No ownership is checked, so either faculty account may send them.
StatusRequests ==
    { [session |-> FacultySession(Kay), data |-> [status |-> <<"Accepted">>, remarks |-> "ok"]],
      [session |-> FacultySession(Lee), data |-> [status |-> <<" ", "Rejected", " ">>]],
      [session |-> FacultySession(Kay), data |-> [status |-> <<"Pending">>, remarks |-> "ok"]],
      [session |-> FacultySession(Lee), data |-> [remarks |-> "ok"]] }

\* The ids a request path names.
Ids == 1..MaxId

(* ------------------------------------------------------------ record store *)

\* load_json: the whole collection ([] for a missing or empty file)
load_json(collection) == collection

\* save_json: the whole collection replaces the file
save_json(data) == data

\* Variant of NextId: one more than the largest id stored.
NextId_max(collection) ==
    IF collection = <<>> THEN 1
    ELSE 1 + CHOOSE m \in {collection[i].id : i \in 1..Len(collection)} :
                 \A i \in 1..Len(collection) : collection[i].id <= m

\* 'id': len(collection) + 1
NextId(collection) == Len(collection) + 1

\* next((x for x in s if ...), None), given the indices I of the matching
\* records: the index of the first match (0: None)
First(I) == IF I = {} THEN 0 ELSE CHOOSE i \in I : \A j \in I : i <= j

Reply(status, items) == [status |-> status, items |-> items, rows |-> <<>>]

Req(op, sess, id) == [op |-> op, session |-> sess, id |-> id]

(* ---------------------------------------------------------------- students *)

\* Variant of IsVisible: a targetType that is neither section nor students
\* is treated as all.
IsVisible_open(a, student_id, student_section) ==
    LET target_type == Get(a, "targetType", "all")
    IN  \/ target_type \notin {"section", "students"}
        \/ target_type = "section" /\ Get(a, "targetSection", None) = student_section
        \/ target_type = "students" /\ student_id \in Range(Get(a, "targetStudents", <<>>))

\* The visibility test of the loop body of get_student_assignments.
IsVisible(a, student_id, student_section) ==
    LET target_type == Get(a, "targetType", "all")
    IN  \/ target_type = "all"
        \/ target_type = "section" /\ Get(a, "targetSection", None) = student_section
        \/ target_type = "students" /\ student_id \in Range(Get(a, "targetStudents", <<>>))

\* GET /api/student/assignments
get_student_assignments(sess) ==
    LET student_id == sess.user_id
        student_section == Get(sess, "section", "")
        loaded == load_json(assignments)
        visible == SelectSeq(loaded, LAMBDA a : IsVisible(a, student_id, student_section))
    IN  Reply(OK, visible)

StudentAssignments(sess) ==
    /\ response' = get_student_assignments(sess)
    /\ request' = Req("get_student_assignments", sess, 0)
    /\ UNCHANGED <<assignments, submissions, files, now, race>>

\* The record upload_submission appends to the loaded collection.
NewSubmission(loaded, sess, subject, filename, t) ==
    [id |-> NextId(loaded),
     studentID |-> sess.user_id,
     name |-> sess.name,
     section |-> Get(sess, "section", ""),
     subject |-> subject,
     fileName |-> [stamp |-> t, name |-> filename],
     filePath |-> [dir |-> sess.user_id, stamp |-> t, name |-> filename],
     submittedOn |-> t,
     status |-> <<"Pending">>,
     remarks |-> ""]

\* Validation of upload_submission: 0 when the request passes.
UploadError(form) ==
    IF "file" \notin DOMAIN form THEN BAD_REQUEST
    ELSE IF form.file = <<>> \/ strip(Get(form, "subject", <<>>)) = <<>> THEN BAD_REQUEST
    ELSE IF ~allowed_file(form.file) THEN BAD_REQUEST
    ELSE 0

\* POST /api/student/upload
upload_submission(sess, form) ==
    /\ request' = Req("upload_submission", sess, 0)
    /\ IF UploadError(form) # 0
       THEN /\ response' = Reply(UploadError(form), <<>>)
            /\ UNCHANGED <<submissions, files, now>>
       ELSE /\ now < MaxTime
            /\ now' = now + 1
            /\ LET loaded == load_json(submissions)
                   submission == NewSubmission(loaded, sess, strip(form.subject),
                                               form.file, now')
               IN  /\ files' = files \cup {submission.filePath}
                   /\ submissions' = save_json(Append(loaded, submission))
                   /\ response' = Reply(OK, <<submission>>)
    /\ UNCHANGED <<assignments, race>>

\* Variant of delete_submission: the records with the id are removed before
\* the owner is looked up.
delete_submission_unchecked(sess, sub_id) ==
    LET student_id == sess.user_id
        loaded == load_json(submissions)
        k == First({i \in 1..Len(loaded) : loaded[i].id = sub_id /\ loaded[i].studentID = student_id})
    IN  /\ request' = Req("delete_submission", sess, sub_id)
        /\ submissions' = save_json(SelectSeq(loaded, LAMBDA s : s.id # sub_id))
        /\ IF k = 0
           THEN /\ response' = Reply(NOT_FOUND, <<>>)
                /\ UNCHANGED files
           ELSE /\ files' = files \ {loaded[k].filePath}
                /\ response' = Reply(OK, <<>>)
        /\ UNCHANGED <<assignments, now, race>>

\* DELETE /api/student/submission/<sub_id>
delete_submission(sess, sub_id) ==
    LET student_id == sess.user_id
        loaded == load_json(submissions)
        k == First({i \in 1..Len(loaded) : loaded[i].id = sub_id /\ loaded[i].studentID = student_id})
    IN  /\ request' = Req("delete_submission", sess, sub_id)
        /\ IF k = 0
           THEN /\ response' = Reply(NOT_FOUND, <<>>)
                /\ UNCHANGED <<submissions, files>>
           ELSE /\ files' = files \ {loaded[k].filePath}
                /\ submissions' = save_json(SelectSeq(loaded, LAMBDA s : s.id # sub_id))
                /\ response' = Reply(OK, <<>>)
        /\ UNCHANGED <<assignments, now, race>>

(* ----------------------------------------------------------------- faculty *)

\* The record create_assignment appends to the loaded collection.
NewAssignment(loaded, sess, data, t) ==
    [id |-> NextId(loaded),
     subject |-> strip(Get(data, "subject", <<>>)),
     targetType |-> Get(data, "targetType", "all"),
     targetSection |-> Get(data, "targetSection", None),
     targetStudents |-> Get(data, "targetStudents", <<>>),
     deadlineDate |-> strip(Get(data, "deadlineDate", <<>>)),
     deadlineTime |-> strip(Get(data, "deadlineTime", <<>>)),
     assignedBy |-> sess.user_id,
     assignedByName |-> sess.name,
     createdAt |-> t]

\* POST /api/faculty/create-assignment
create_assignment(sess, data) ==
    LET subject == strip(Get(data, "subject", <<>>))
        deadline_date == strip(Get(data, "deadlineDate", <<>>))
        deadline_time == strip(Get(data, "deadlineTime", <<>>))
    IN  /\ request' = Req("create_assignment", sess, 0)
        /\ IF subject = <<>> \/ deadline_date = <<>> \/ deadline_time = <<>>
           THEN /\ response' = Reply(BAD_REQUEST, <<>>)
                /\ UNCHANGED <<assignments, now>>
           ELSE /\ now < MaxTime
                /\ now' = now + 1
                /\ LET loaded == load_json(assignments)
                       assignment == NewAssignment(loaded, sess, data, now')
                   IN  /\ assignments' = save_json(Append(loaded, assignment))
                       /\ response' = Reply(OK, <<assignment>>)
        /\ UNCHANGED <<submissions, files, race>>

\* DELETE /api/faculty/assignment/<assign_id>
delete_assignment(sess, assign_id) ==
    LET faculty_id == sess.user_id
        loaded == load_json(assignments)
        k == First({i \in 1..Len(loaded) : loaded[i].id = assign_id /\ loaded[i].assignedBy = faculty_id})
    IN  /\ request' = Req("delete_assignment", sess, assign_id)
        /\ IF k = 0
           THEN /\ response' = Reply(NOT_FOUND, <<>>)
                /\ UNCHANGED assignments
           ELSE /\ assignments' = save_json(SelectSeq(loaded, LAMBDA x : x.id # assign_id))
                /\ response' = Reply(OK, <<>>)
        /\ UNCHANGED <<submissions, files, now, race>>

\* The filter of get_assignment_submissions over the loaded submissions.
MatchingSubmissions(assignment, loaded) ==
    LET filtered == SelectSeq(loaded, LAMBDA s : s.subject = assignment.subject)
    IN  IF assignment.targetType = "section"
        THEN SelectSeq(filtered, LAMBDA s : s.section = assignment.targetSection)
        ELSE IF assignment.targetType = "students"
        THEN SelectSeq(filtered,
                       LAMBDA s : s.studentID \in Range(Get(assignment, "targetStudents", <<>>)))
        ELSE filtered

\* GET /api/faculty/submissions/<assign_id>
get_assignment_submissions(sess, assign_id) ==
    LET faculty_id == sess.user_id
        loaded == load_json(assignments)
        k == First({i \in 1..Len(loaded) : loaded[i].id = assign_id /\ loaded[i].assignedBy = faculty_id})
    IN  IF k = 0 THEN Reply(NOT_FOUND, <<>>)
        ELSE Reply(OK, MatchingSubmissions(loaded[k], load_json(submissions)))

AssignmentSubmissions(sess, assign_id) ==
    /\ response' = get_assignment_submissions(sess, assign_id)
    /\ request' = Req("get_assignment_submissions", sess, assign_id)
    /\ UNCHANGED <<assignments, submissions, files, now, race>>

\* The submissions update_submission_status saves: the first match is rewritten.
WithStatus(loaded, k, new_status, remarks) ==
    [loaded EXCEPT ![k] = [@ EXCEPT !.status = new_status, !.remarks = remarks]]

\* Variant of StatusError: the status is not validated.
StatusError_unvalidated(loaded, sub_id, data) ==
    IF First({i \in 1..Len(loaded) : loaded[i].id = sub_id}) = 0 THEN NOT_FOUND ELSE 0

\* Validation and lookup of update_submission_status: 0 when the request passes.
StatusError(loaded, sub_id, data) ==
    IF strip(Get(data, "status", <<>>)) \notin {<<"Accepted">>, <<"Rejected">>}
    THEN BAD_REQUEST
    ELSE IF First({i \in 1..Len(loaded) : loaded[i].id = sub_id}) = 0 THEN NOT_FOUND
    ELSE 0

\* PUT /api/faculty/submission/<sub_id>/status
update_submission_status(sess, sub_id, data) ==
    LET new_status == strip(Get(data, "status", <<>>))
        loaded == load_json(submissions)
        k == First({i \in 1..Len(loaded) : loaded[i].id = sub_id})
    IN  /\ request' = Req("update_submission_status", sess, sub_id)
        /\ IF StatusError(loaded, sub_id, data) # 0
           THEN /\ response' = Reply(StatusError(loaded, sub_id, data), <<>>)
                /\ UNCHANGED submissions
           ELSE /\ submissions' = save_json(WithStatus(loaded, k, new_status,
                                                       Get(data, "remarks", "")))
                /\ response' = Reply(OK, <<>>)
        /\ UNCHANGED <<assignments, files, now, race>>

CsvHeader == <<"Student Name", "ID", "Section", "File", "Submitted", "Status">>

\* writer.writerow of export_submissions_csv
CsvRow(s) == <<Get(s, "name", None), Get(s, "studentID", None), Get(s, "section", None),
               Get(s, "fileName", None), Get(s, "submittedOn", "N/A"),
               Get(s, "status", None)>>

\* Variant of export_submissions_csv: the section filter is left out.
export_submissions_csv_unscoped(sess, assign_id) ==
    LET faculty_id == sess.user_id
        loaded == load_json(assignments)
        k == First({i \in 1..Len(loaded) : loaded[i].id = assign_id /\ loaded[i].assignedBy = faculty_id})
        assignment == loaded[k]
        all == load_json(submissions)
        bySubject == SelectSeq(all, LAMBDA s : s.subject = assignment.subject)
        filtered ==
            IF assignment.targetType = "students"
            THEN SelectSeq(bySubject,
                           LAMBDA s : s.studentID \in Range(Get(assignment, "targetStudents", <<>>)))
            ELSE bySubject
    IN  IF k = 0 THEN Reply(NOT_FOUND, <<>>)
        ELSE [status |-> OK, items |-> <<>>,
              rows |-> <<CsvHeader>> \o [i \in 1..Len(filtered) |-> CsvRow(filtered[i])]]

\* GET /api/faculty/submissions/<assign_id>/export
export_submissions_csv(sess, assign_id) ==
    LET faculty_id == sess.user_id
        loaded == load_json(assignments)
        k == First({i \in 1..Len(loaded) : loaded[i].id = assign_id /\ loaded[i].assignedBy = faculty_id})
        assignment == loaded[k]
        all == load_json(submissions)
        bySubject == SelectSeq(all, LAMBDA s : s.subject = assignment.subject)
        filtered ==
            IF assignment.targetType = "section"
            THEN SelectSeq(bySubject, LAMBDA s : s.section = assignment.targetSection)
            ELSE IF assignment.targetType = "students"
            THEN SelectSeq(bySubject,
                           LAMBDA s : s.studentID \in Range(Get(assignment, "targetStudents", <<>>)))
            ELSE bySubject
    IN  IF k = 0 THEN Reply(NOT_FOUND, <<>>)
        ELSE [status |-> OK, items |-> <<>>,
              rows |-> <<CsvHeader>> \o [i \in 1..Len(filtered) |-> CsvRow(filtered[i])]]

ExportCsv(sess, assign_id) ==
    /\ response' = export_submissions_csv(sess, assign_id)
    /\ request' = Req("export_submissions_csv", sess, assign_id)
    /\ UNCHANGED <<assignments, submissions, files, now, race>>

(* ------------------------------------------------------------ specification *)

\* The request threads of the interleaved specification.
Threads == {"t1", "t2"}

\* A thread that serves no request.
NoJob == [op |-> "", session |-> NoSession, subject |-> <<>>, file |-> <<>>,
          id |-> 0, status |-> <<>>, remarks |-> "", t |-> 0]

\* init_app: empty collections, empty upload folder; no request served yet.
Init ==
    /\ assignments = <<>>
    /\ submissions = <<>>
    /\ files = {}
    /\ now = 0
    /\ request = Req("", NoSession, 0)
    /\ response = Reply(0, <<>>)
    /\ pc = [p \in Threads |-> "idle"]
    /\ snap = [p \in Threads |-> <<>>]
    /\ job = [p \in Threads |-> NoJob]
    /\ missed = [p \in Threads |-> {}]
    /\ lastWriter = ""
    /\ served = 0

\* The lifecycle handlers, each served whole (load, modify, save, respond).
Next ==
    \/ \E r \in UploadRequests : upload_submission(r.session, r.form)
    \/ \E sess \in StudentSessions, id \in Ids : delete_submission(sess, id)
    \/ \E r \in AssignmentRequests : create_assignment(r.session, r.data)
    \/ \E sess \in FacultySessions, id \in Ids : delete_assignment(sess, id)
    \/ \E r \in StatusRequests, id \in Ids : update_submission_status(r.session, id, r.data)

Spec == Init /\ [][Next]_vars

(* ------------------------------------------------------- the read handlers *)

\* The assignments stored after the create requests rs were served in order.
RECURSIVE AssignmentsFrom(_)
AssignmentsFrom(rs) ==
    IF rs = <<>> THEN <<>>
    ELSE LET loaded == AssignmentsFrom(SubSeq(rs, 1, Len(rs) - 1))
             r == rs[Len(rs)]
         IN  Append(loaded, NewAssignment(loaded, r.session, r.data, Len(rs)))

\* The submissions stored after the uploads rs were served in order, from time t0.
RECURSIVE SubmissionsFrom(_, _)
SubmissionsFrom(rs, t0) ==
    IF rs = <<>> THEN <<>>
    ELSE LET loaded == SubmissionsFrom(SubSeq(rs, 1, Len(rs) - 1), t0)
             r == rs[Len(rs)]
         IN  Append(loaded, NewSubmission(loaded, r.session, strip(r.form.subject),
                                          r.form.file, t0 + Len(rs)))

\* The stores after up to MaxAssignments valid create requests, one targeting
\* case each, and then up to MaxSubmissions valid uploads.
InitView ==
    /\ \E n \in 0..MaxAssignments, m \in 0..MaxSubmissions :
         \E cs \in [1..n -> TargetingRequests], us \in [1..m -> ValidUploadRequests] :
            /\ assignments = AssignmentsFrom(cs)
            /\ submissions = SubmissionsFrom(us, n)
            /\ files = {submissions[i].filePath : i \in 1..m}
            /\ now = n + m
    /\ request = Req("", NoSession, 0)
    /\ response = Reply(0, <<>>)
    /\ pc = [p \in Threads |-> "idle"]
    /\ snap = [p \in Threads |-> <<>>]
    /\ job = [p \in Threads |-> NoJob]
    /\ missed = [p \in Threads |-> {}]
    /\ lastWriter = ""
    /\ served = 0

NextView ==
    \/ \E sess \in StudentSessions : StudentAssignments(sess)
    \/ \E sess \in FacultySessions, id \in Ids : AssignmentSubmissions(sess, id)
    \/ \E sess \in FacultySessions, id \in Ids : ExportCsv(sess, id)

SpecView == InitView /\ [][NextView]_vars

(* ------------------------------------------- two request threads interleaved *)

\* missed[p]: the threads that saved the submissions since thread p loaded them.
\* lastWriter: the thread whose save the stored submissions come from.
Saved(p) ==
    /\ missed' = [q \in Threads |-> IF q # p /\ pc[q] = "loaded"
                                    THEN missed[q] \cup {p} ELSE missed[q]]
    /\ lastWriter' = p
    /\ UNCHANGED served

\* The server takes one more request.
Accept ==
    /\ served < MaxRequests
    /\ served' = served + 1

\* upload_submission up to load_json: validation passed, the file is saved,
\* the thread holds the collection it loaded.
UploadLoad(p, r) ==
    /\ pc[p] # "loaded"
    /\ Accept
    /\ UploadError(r.form) = 0
    /\ now < MaxTime
    /\ now' = now + 1
    /\ job' = [job EXCEPT ![p] = [op |-> "upload_submission", session |-> r.session,
                                  subject |-> strip(r.form.subject), file |-> r.form.file,
                                  id |-> 0, status |-> <<>>, remarks |-> "", t |-> now']]
    /\ files' = files \cup {NewSubmission(<<>>, r.session, strip(r.form.subject),
                                          r.form.file, now').filePath}
    /\ snap' = [snap EXCEPT ![p] = load_json(submissions)]
    /\ missed' = [missed EXCEPT ![p] = {}]
    /\ pc' = [pc EXCEPT ![p] = "loaded"]
    /\ UNCHANGED <<assignments, submissions, request, response, lastWriter>>

\* Variant of UploadSave: the record is appended to the collection as stored
\* at the time of the save.
UploadSave_fresh(p) ==
    /\ pc[p] = "loaded"
    /\ job[p].op = "upload_submission"
    /\ submissions' = save_json(Append(submissions,
                          NewSubmission(submissions, job[p].session, job[p].subject,
                                        job[p].file, job[p].t)))
    /\ Saved(p)
    /\ pc' = [pc EXCEPT ![p] = "done"]
    /\ UNCHANGED <<assignments, files, now, request, response, snap, job>>

\* upload_submission from the append to the reply: the loaded collection,
\* with the new record, replaces the stored one.
UploadSave(p) ==
    /\ pc[p] = "loaded"
    /\ job[p].op = "upload_submission"
    /\ submissions' = save_json(Append(snap[p],
                          NewSubmission(snap[p], job[p].session, job[p].subject,
                                        job[p].file, job[p].t)))
    /\ Saved(p)
    /\ pc' = [pc EXCEPT ![p] = "done"]
    /\ UNCHANGED <<assignments, files, now, request, response, snap, job>>

\* update_submission_status up to the lookup in the loaded collection; the
\* thread replies 404 when the lookup finds nothing.
StatusLoad(p, r, sub_id) ==
    /\ pc[p] # "loaded"
    /\ Accept
    /\ StatusError(submissions, sub_id, r.data) \in {0, NOT_FOUND}
    /\ IF StatusError(submissions, sub_id, r.data) = 0
       THEN /\ job' = [job EXCEPT ![p] =
                         [op |-> "update_submission_status", session |-> NoSession,
                          subject |-> <<>>, file |-> <<>>,
                          id |-> sub_id, status |-> strip(r.data.status),
                          remarks |-> Get(r.data, "remarks", ""), t |-> 0]]
            /\ snap' = [snap EXCEPT ![p] = load_json(submissions)]
            /\ pc' = [pc EXCEPT ![p] = "loaded"]
       ELSE /\ job' = [job EXCEPT ![p] = NoJob]
            /\ snap' = [snap EXCEPT ![p] = <<>>]
            /\ pc' = [pc EXCEPT ![p] = "failed"]
    /\ missed' = [missed EXCEPT ![p] = {}]
    /\ UNCHANGED <<assignments, submissions, files, now, request, response, lastWriter>>

\* update_submission_status from the assignment of the status to the reply.
StatusSave(p) ==
    /\ pc[p] = "loaded"
    /\ job[p].op = "update_submission_status"
    /\ submissions' = save_json(WithStatus(snap[p],
                          First({i \in 1..Len(snap[p]) : snap[p][i].id = job[p].id}),
                          job[p].status, job[p].remarks))
    /\ Saved(p)
    /\ pc' = [pc EXCEPT ![p] = "done"]
    /\ UNCHANGED <<assignments, files, now, request, response, snap, job>>

NextRace ==
    \/ \E p \in Threads, r \in UploadRequests : UploadLoad(p, r)
    \/ \E p \in Threads : UploadSave(p)
    \/ \E p \in Threads, r \in StatusRequests, id \in Ids : StatusLoad(p, r, id)
    \/ \E p \in Threads : StatusSave(p)

SpecRace == Init /\ [][NextRace]_vars

(* ------------------------------------------------------------------ claims *)

\* How many times the record r occurs in the collection s.
Count(s, r) == Cardinality({i \in 1..Len(s) : s[i] = r})

\* a is b with some records left out, the others in their order.
RECURSIVE IsSubSeq(_, _)
IsSubSeq(a, b) ==
    IF a = <<>> THEN TRUE
    ELSE IF b = <<>> THEN FALSE
    ELSE IF Head(a) = Head(b) THEN IsSubSeq(Tail(a), Tail(b))
    ELSE IsSubSeq(a, Tail(b))

Answered(op) == request'.op = op /\ response'.status = OK

\* C1: a successful delete_assignment removes from the assignments only
\* records whose assignedBy is the caller.
C1_DeleteRemovesOnlyOwn ==
    [][Answered("delete_assignment") =>
         \A i \in 1..Len(assignments) :
            Count(assignments', assignments[i]) < Count(assignments, assignments[i])
               => assignments[i].assignedBy = request'.session.user_id]_vars

\* C2: a successful delete_submission removes from the submissions only
\* records whose studentID is the caller.
C2_DeleteRemovesOnlyOwn ==
    [][Answered("delete_submission") =>
         \A i \in 1..Len(submissions) :
            Count(submissions', submissions[i]) < Count(submissions, submissions[i])
               => submissions[i].studentID = request'.session.user_id]_vars

\* C3: no two stored assignments share an id, and no two stored submissions.
C3_UniqueIds ==
    /\ \A i, j \in 1..Len(assignments) : assignments[i].id = assignments[j].id => i = j
    /\ \A i, j \in 1..Len(submissions) : submissions[i].id = submissions[j].id => i = j

\* C4: a request answered with an error (400 or 404) leaves the assignments
\* and the submissions as they were.
C4_ErrorsChangeNothing ==
    [][response'.status \in {BAD_REQUEST, NOT_FOUND} =>
         assignments' = assignments /\ submissions' = submissions]_vars

\* C4 witness: a faculty account was refused the deletion of an assignment
\* that exists and belongs to another account.
C4_Witness ==
    /\ request.op = "delete_assignment"
    /\ response.status = NOT_FOUND
    /\ \E i \in 1..Len(assignments) :
          /\ assignments[i].id = request.id
          /\ assignments[i].assignedBy # request.session.user_id

\* The targeting rule as the specification words it.
Targets(a, student_id, student_section) ==
    \/ a.targetType = "all"
    \/ a.targetType = "section" /\ a.targetSection = student_section
    \/ a.targetType = "students" /\ \E i \in 1..Len(a.targetStudents) :
                                       a.targetStudents[i] = student_id

\* C5: the visible-assignments query returns, in stored order, exactly the
\* assignments that target the student: type all, type section with the
\* student's section (the empty section matching only an empty
\* targetSection), type students with the student's id; no other type.
C5_VisibleAssignments ==
    request.op = "get_student_assignments" =>
       LET s == request.session
       IN  /\ response.status = OK
           /\ response.items =
                 SelectSeq(assignments, LAMBDA a : Targets(a, s.user_id, s.section))
           /\ \A i \in 1..Len(response.items) :
                 /\ response.items[i].targetType \in {"all", "section", "students"}
                 /\ response.items[i].targetType = "section" /\ s.section = ""
                       => response.items[i].targetSection = ""

\* C5 witness: the student with the empty section asked; an assignment for
\* the empty section was returned, one of an unrecognised type was not.
C5_Witness ==
    /\ request.op = "get_student_assignments"
    /\ request.session.section = ""
    /\ Len(assignments) = 2
    /\ assignments[1].targetType = "group"
    /\ assignments[2].targetType = "section"
    /\ response.items = <<assignments[2]>>

\* C6: for the assignment a view-submissions request found, a stored
\* submission with the assignment's subject is returned exactly when the
\* assignment is visible to a student with the submission's studentID and
\* recorded section.
C6_MatcherAgreesWithVisibility ==
    (request.op = "get_assignment_submissions" /\ response.status = OK) =>
       LET k == First({i \in 1..Len(assignments) : assignments[i].id = request.id /\ assignments[i].assignedBy = request.session.user_id})
       IN  \A i \in 1..Len(submissions) :
              submissions[i].subject = assignments[k].subject =>
                 LET s == submissions[i]
                     student == [user_id |-> s.studentID, role |-> "student",
                                 name |-> s.name, section |-> s.section]
                 IN  s \in Range(response.items)
                        <=> assignments[k] \in Range(get_student_assignments(student).items)

\* C7: for every assignment id and faculty caller, export-CSV and
\* view-submissions both answer 404 or both answer 200, and then the exported
\* rows after the header are, one for one and in order, the submissions that
\* view-submissions returns.
C7_ExportMatchesView ==
    \A sess \in FacultySessions, id \in Ids :
       LET v == get_assignment_submissions(sess, id)
           e == export_submissions_csv(sess, id)
       IN  /\ v.status \in {OK, NOT_FOUND}
           /\ e.status = v.status
           /\ v.status = OK =>
                 /\ Len(e.rows) = Len(v.items) + 1
                 /\ e.rows[1] = CsvHeader
                 /\ \A i \in 1..Len(v.items) :
                       e.rows[i + 1] = <<v.items[i].name, v.items[i].studentID,
                                         v.items[i].section, v.items[i].fileName,
                                         v.items[i].submittedOn, v.items[i].status>>

\* C7 witness: an export answered 200 with at least one row, the filter
\* having left out a stored submission.
C7_Witness ==
    /\ request.op = "export_submissions_csv"
    /\ response.status = OK
    /\ Len(response.rows) = 2
    /\ Len(submissions) = 2
    /\ submissions[1].subject = submissions[2].subject

\* The last step of the scenario of C8: from empty stores two assignments were
\* created (at times 1 and 2), the first was deleted by its owner in the
\* request just served, and a new assignment is now created.
C8_Scenario ==
    /\ now = 2
    /\ Len(assignments) = 1
    /\ assignments[1].createdAt = 2
    /\ request.op = "delete_assignment"
    /\ response.status = OK
    /\ Answered("create_assignment")

\* C8 as claimed: in the scenario the new assignment gets the id that the
\* deleted assignment had.
C8_NewIdIsDeletedId ==
    [][C8_Scenario => response'.items[1].id = request.id]_vars

\* C8 as amended: in the scenario the new assignment gets the id of the
\* second assignment, which is still stored, and not the id of the deleted one.
C8_NewIdIsSurvivorId ==
    [][C8_Scenario =>
         /\ response'.items[1].id = assignments[1].id
         /\ response'.items[1].id # request.id
         /\ assignments' = <<assignments[1], response'.items[1]>>]_vars

\* C8 witness: the scenario has run; the two stored assignments share an id.
C8_Witness ==
    /\ now = 3
    /\ request.op = "create_assignment"
    /\ response.status = OK
    /\ Len(assignments) = 2
    /\ assignments[1].createdAt = 2
    /\ assignments[2].createdAt = 3
    /\ assignments[1].id = assignments[2].id

\* Thread p saved between the load and the save of thread q, q's save is the
\* last one, and both requests were answered 200.
Overwritten(p, q) ==
    /\ p # q
    /\ pc[p] = "done"
    /\ pc[q] = "done"
    /\ lastWriter = q
    /\ p \in missed[q]

\* C9: when two writers of the submissions interleave, both are answered 200
\* and the update of the earlier writer is lost: an upload of the earlier
\* writer is not stored, and the record whose status it set is stored as the
\* later writer loaded it.
C9_LostUpdate ==
    \A p, q \in Threads :
       Overwritten(p, q) =>
          /\ job[p].op = "upload_submission" =>
                \A i \in 1..Len(submissions) : submissions[i].submittedOn # job[p].t
          /\ job[p].op = "update_submission_status" =>
                LET kp == First({i \in 1..Len(snap[p]) : snap[p][i].id = job[p].id})
                    kq == IF job[q].op = "update_submission_status"
                          THEN First({i \in 1..Len(snap[q]) : snap[q][i].id = job[q].id}) ELSE 0
                IN  \A i \in 1..Len(submissions) :
                       (submissions[i].submittedOn = snap[p][kp].submittedOn /\ i # kq)
                          => i <= Len(snap[q]) /\ submissions[i] = snap[q][i]

\* C9 witness: two uploads interleaved, both answered 200, one record stored.
C9_Witness ==
    \E p, q \in Threads :
       /\ Overwritten(p, q)
       /\ job[p].op = "upload_submission"
       /\ job[q].op = "upload_submission"
       /\ Len(submissions) = 1

Statuses == {<<"Pending">>, <<"Accepted">>, <<"Rejected">>}
Decided == {<<"Accepted">>, <<"Rejected">>}

====
